---- MODULE Spec2Model ----
(***************************************************************************)
(* A model of the context-management engine of OpenClaw:                   *)
(*   - history selection      (agents/pi-embedded-runner/history.ts)       *)
(*   - context budget         (ContextBudgetManager)                       *)
(*   - semantic retrieval     (SemanticHistoryRetriever)                   *)
(*   - rolling summarisation  (RollingSummarizer)                          *)
(*                                                                         *)
(* Conventions.  A message is a record [role, tokens]; tokens is the value *)
(* estimateTokens returns for it.  Sequences are TLA+ sequences (1-based); *)
(* the operators below keep the 0-based indices of the TypeScript source   *)
(* and convert with At and Slice.  An optional argument is a sequence of   *)
(* length 0 (undefined) or 1 (the value).  Ratios are held in hundredths.  *)
(***************************************************************************)
EXTENDS Integers, Sequences, FiniteSets, TLC

VARIABLES
    messages,       \* the session history handed to the engine
    historyCall,    \* the last history-selection call and its result
    budgetConfig,   \* ContextBudgetManager.config
    budgetCall,     \* the last ContextBudgetManager call and its result
    retrieverConfig,\* SemanticHistoryRetriever.config
    searchResults,  \* what the memory search provider answers
    retrieveCall,   \* the last retrieve call and its result
    summaryConfig,  \* RollingSummarizer.config
    summaryCall,    \* the last buildContextWithSummary call and its result
    lane,           \* a lane of the scheduler: its holders and its queue of waiters
    approvals       \* the approval table of the broker and the executions so far

vars == <<messages, historyCall, budgetConfig, budgetCall, retrieverConfig,
          searchResults, retrieveCall, summaryConfig, summaryCall, lane, approvals>>

----------------------------------------------------------------------------
(* Bounds of the model *)

MaxLen == 4          \* longest history
MaxTokens == 3       \* the token estimate of a large message
MaxBudget == 7       \* largest token budget handed to history selection
MaxPreserve == 2     \* largest preserveRecentTurns / windowSize
MaxLimit == 3        \* largest turn limit handed to limitHistoryTurns
MaxSmallWindow == 24 \* context windows 0 .. MaxSmallWindow are all tried
MaxTasks == 3        \* tasks that ask for the lane
MaxApprovals == 2    \* approvals the broker issues
MaxExecutions == 3   \* execution attempts made with approval ids

----------------------------------------------------------------------------
(* Generic helpers: JavaScript arrays and optional values *)

Max(a, b) == IF a >= b THEN a ELSE b
Min(a, b) == IF a <= b THEN a ELSE b

None == <<>>
Some(v) == <<v>>
IsDefined(o) == Len(o) > 0
OrElse(o, d) == IF Len(o) > 0 THEN o[1] ELSE d

\* messages[i], 0-based
At(ms, i) == ms[i + 1]
\* messages.slice(from)
Slice(ms, from) == SubSeq(ms, Min(from, Len(ms)) + 1, Len(ms))
\* messages.slice(0, to)
SliceTo(ms, to) == SubSeq(ms, 1, Min(to, Len(ms)))

Roles == {"user", "assistant", "toolResult"}
Messages == [role : Roles, tokens : {1, MaxTokens}]

RECURSIVE SeqsUpTo(_, _)
SeqsUpTo(S, n) ==
    IF n = 0 THEN {<<>>}
    ELSE LET shorter == SeqsUpTo(S, n - 1)
         IN  shorter \cup {Append(s, x) : s \in {t \in shorter : Len(t) = n - 1}, x \in S}

Histories == SeqsUpTo(Messages, MaxLen)

estimateTokens(msg) == msg.tokens

\* messages.reduce((sum, msg) => sum + estimateTokens(msg), 0)
RECURSIVE estimateMessagesTokens(_)
estimateMessagesTokens(ms) ==
    IF Len(ms) = 0 THEN 0
    ELSE estimateTokens(ms[1]) + estimateMessagesTokens(Tail(ms))

\* the 0-based indices of the user messages of ms
UserIndices(ms) == {i \in 0 .. Len(ms) - 1 : At(ms, i).role = "user"}

IsSuffix(s, t) == Len(s) <= Len(t) /\ s = Slice(t, Len(t) - Len(s))

----------------------------------------------------------------------------
(* history.ts: token-based history selection *)

DefaultPreserveRecentTurns == 5

\* the loop of findRecentTurnsSplit, from index i downwards
RECURSIVE FindRecentLoop(_, _, _, _, _, _)
FindRecentLoop(ms, preserveTurns, i, userCount, recentStartIndex, recentTokens) ==
    IF i < 0
    THEN [recentStartIndex |-> recentStartIndex, recentTokens |-> recentTokens]
    ELSE LET tok == recentTokens + estimateTokens(At(ms, i))
         IN  IF At(ms, i).role = "user"
             THEN IF userCount + 1 >= preserveTurns
                  THEN [recentStartIndex |-> i, recentTokens |-> tok]
                  ELSE FindRecentLoop(ms, preserveTurns, i - 1, userCount + 1, i, tok)
             ELSE FindRecentLoop(ms, preserveTurns, i - 1, userCount, i, tok)

findRecentTurnsSplit(ms, preserveTurns) ==
    IF preserveTurns <= 0
    THEN [recentStartIndex |-> Len(ms), recentTokens |-> 0]
    ELSE FindRecentLoop(ms, preserveTurns, Len(ms) - 1, 0, Len(ms), 0)

\* a loop that counts the tokens of each dropped message twice
RECURSIVE DropLoop_CountsDouble(_, _, _, _)
DropLoop_CountsDouble(ms, i, tokensToRemove, dropCount) ==
    IF i < Len(ms) /\ tokensToRemove > 0
    THEN DropLoop_CountsDouble(ms, i + 1, tokensToRemove - 2 * estimateTokens(At(ms, i)),
                               dropCount + 1)
    ELSE dropCount

\* for (i = 0; i < length && tokensToRemove > 0; i++) { tokensToRemove -= ...; dropCount++ }
RECURSIVE DropLoop(_, _, _, _)
DropLoop(ms, i, tokensToRemove, dropCount) ==
    IF i < Len(ms) /\ tokensToRemove > 0
    THEN DropLoop(ms, i + 1, tokensToRemove - estimateTokens(At(ms, i)), dropCount + 1)
    ELSE dropCount

\* a trim that takes the newest messages away instead of the oldest
truncateMessagesToFit_DropsNewest(ms, budgetTokens) ==
    IF Len(ms) = 0 \/ budgetTokens <= 0 THEN <<>>
    ELSE IF estimateMessagesTokens(ms) <= budgetTokens THEN ms
    ELSE SliceTo(ms, Len(ms) - 1)

\* for (i = dropCount; i < length; i++) if (role === "user") { adjusted = i; break }
RECURSIVE AdjustLoop(_, _, _)
AdjustLoop(ms, i, adjustedDropCount) ==
    IF i >= Len(ms) THEN adjustedDropCount
    ELSE IF At(ms, i).role = "user" THEN i
    ELSE AdjustLoop(ms, i + 1, adjustedDropCount)

truncateMessagesToFit(ms, budgetTokens) ==
    IF Len(ms) = 0 \/ budgetTokens <= 0 THEN <<>>
    ELSE LET totalTokens == estimateMessagesTokens(ms)
         IN  IF totalTokens <= budgetTokens THEN ms
             ELSE LET dropCount == DropLoop(ms, 0, totalTokens - budgetTokens, 0)
                      adjustedDropCount == AdjustLoop(ms, dropCount, dropCount)
                  IN  Slice(ms, adjustedDropCount)

limitHistoryByTokens(ms, budgetTokens, preserveOpt) ==
    IF Len(ms) = 0 \/ budgetTokens <= 0 THEN <<>>
    ELSE LET preserveRecentTurns == OrElse(preserveOpt, DefaultPreserveRecentTurns)
             totalTokens == estimateMessagesTokens(ms)
         IN  IF totalTokens <= budgetTokens THEN ms
             ELSE LET split == findRecentTurnsSplit(ms, preserveRecentTurns)
                      remainingBudget == budgetTokens - split.recentTokens
                      olderMessages == SliceTo(ms, split.recentStartIndex)
                      recentMessages == Slice(ms, split.recentStartIndex)
                  IN  IF split.recentTokens > budgetTokens
                      THEN truncateMessagesToFit(recentMessages, budgetTokens)
                      ELSE IF Len(olderMessages) = 0 \/ remainingBudget <= 0
                           THEN recentMessages
                           ELSE truncateMessagesToFit(olderMessages, remainingBudget)
                                    \o recentMessages

\* a loop that cuts at the user message it stands on
RECURSIVE TurnsLoop_CutAtCurrent(_, _, _, _, _)
TurnsLoop_CutAtCurrent(ms, limit, i, userCount, lastUserIndex) ==
    IF i < 0 THEN ms
    ELSE IF At(ms, i).role = "user"
         THEN IF userCount + 1 > limit
              THEN Slice(ms, i)
              ELSE TurnsLoop_CutAtCurrent(ms, limit, i - 1, userCount + 1, i)
         ELSE TurnsLoop_CutAtCurrent(ms, limit, i - 1, userCount, lastUserIndex)

\* the loop of limitHistoryTurns, from index i downwards
RECURSIVE TurnsLoop(_, _, _, _, _)
TurnsLoop(ms, limit, i, userCount, lastUserIndex) ==
    IF i < 0 THEN ms
    ELSE IF At(ms, i).role = "user"
         THEN IF userCount + 1 > limit
              THEN Slice(ms, lastUserIndex)
              ELSE TurnsLoop(ms, limit, i - 1, userCount + 1, i)
         ELSE TurnsLoop(ms, limit, i - 1, userCount, lastUserIndex)

\* limit is optional; !limit holds for undefined and for 0
limitHistoryTurns(ms, limitOpt) ==
    IF ~IsDefined(limitOpt) \/ limitOpt[1] = 0 \/ limitOpt[1] <= 0 \/ Len(ms) = 0
    THEN ms
    ELSE TurnsLoop(ms, limitOpt[1], Len(ms) - 1, 0, Len(ms))

\* rerun: the result of the same selection applied to its own result, once made
NoHistoryCall ==
    [op |-> "none", input |-> <<>>, budgetTokens |-> 0, preserve |-> None,
     limit |-> None, result |-> <<>>, rerun |-> None]

\* the budgets and options a caller passes
HistoryBudgets == -1 .. MaxBudget
PreserveOptions == {None} \cup {Some(n) : n \in 0 .. MaxPreserve}

\* A caller trims the session history to a token budget.
LimitHistoryByTokens ==
    /\ historyCall.op = "none"
    /\ \E budgetTokens \in HistoryBudgets, preserveOpt \in PreserveOptions :
          historyCall' = [op |-> "limitHistoryByTokens", input |-> messages,
                          budgetTokens |-> budgetTokens, preserve |-> preserveOpt,
                          limit |-> None,
                          result |-> limitHistoryByTokens(messages, budgetTokens,
                                                          preserveOpt),
                          rerun |-> None]
    /\ UNCHANGED <<messages, budgetConfig, budgetCall, retrieverConfig,
                   searchResults, retrieveCall, summaryConfig, summaryCall,
                   lane, approvals>>

TurnLimits == {None} \cup {Some(n) : n \in -1 .. MaxLimit}

\* A caller trims the session history to its last turns.
LimitHistoryTurns ==
    /\ historyCall.op = "none"
    /\ \E limitOpt \in TurnLimits :
          historyCall' = [op |-> "limitHistoryTurns", input |-> messages,
                          budgetTokens |-> 0, preserve |-> None, limit |-> limitOpt,
                          result |-> limitHistoryTurns(messages, limitOpt),
                          rerun |-> None]
    /\ UNCHANGED <<messages, budgetConfig, budgetCall, retrieverConfig,
                   searchResults, retrieveCall, summaryConfig, summaryCall,
                   lane, approvals>>

\* The caller hands the selected history to the same selection again.
RerunHistorySelection ==
    /\ historyCall.op # "none"
    /\ ~IsDefined(historyCall.rerun)
    /\ historyCall' =
          [historyCall EXCEPT !.rerun =
              Some(IF historyCall.op = "limitHistoryTurns"
                   THEN limitHistoryTurns(historyCall.result, historyCall.limit)
                   ELSE limitHistoryByTokens(historyCall.result, historyCall.budgetTokens,
                                             historyCall.preserve))]
    /\ UNCHANGED <<messages, budgetConfig, budgetCall, retrieverConfig,
                   searchResults, retrieveCall, summaryConfig, summaryCall,
                   lane, approvals>>

----------------------------------------------------------------------------
(* history.ts: the turn limit of a session key.  A string is held as the    *)
(* sequence of its pieces between colons, so "a:b" is <<"a", "b">> and the  *)
(* empty string is <<"">>.                                                 *)

EmptyString == <<"">>

\* String.prototype.toLowerCase on the pieces the model uses
Lower(s) ==
    CASE s = "DM" -> "dm"
      [] s = "Telegram" -> "telegram"
      [] s = "Thread" -> "thread"
      [] OTHER -> s

\* \d+
IsDigits(s) == s \in {"1", "42"}

\* parts.filter(Boolean)
FilterBoolean(parts) == SelectSeq(parts, LAMBDA s : s # "")

\* parts.join(":")
Join(parts) == IF Len(parts) = 0 THEN EmptyString ELSE parts

\* a suffix stripper that leaves every value as it is
stripThreadSuffix_Keeps(value) == value

\* value.match(/^(.*)(?::(?:thread|topic):\d+)$/i)?.[1] ?? value
stripThreadSuffix(value) ==
    IF /\ Len(value) >= 3
       /\ Lower(value[Len(value) - 1]) \in {"thread", "topic"}
       /\ IsDigits(value[Len(value)])
    THEN SubSeq(value, 1, Len(value) - 2)
    ELSE value

\* resolveProviderConfig: channels is optional, a function from provider ids
resolveProviderConfig(cfg, providerId) ==
    IF ~IsDefined(cfg.channels) THEN None
    ELSE IF providerId \notin DOMAIN cfg.channels[1] THEN None
    ELSE Some(cfg.channels[1][providerId])

\* getLimit: the override of the user when set, else the limit of the provider
getLimit(providerConfigOpt, userId) ==
    IF ~IsDefined(providerConfigOpt) THEN None
    ELSE LET providerConfig == providerConfigOpt[1]
         IN  IF /\ userId # EmptyString
                /\ userId \in DOMAIN providerConfig.dms
                /\ IsDefined(providerConfig.dms[userId].historyLimit)
             THEN providerConfig.dms[userId].historyLimit
             ELSE providerConfig.dmHistoryLimit

getDmHistoryLimitFromSessionKey(sessionKeyOpt, configOpt) ==
    IF ~IsDefined(sessionKeyOpt) \/ sessionKeyOpt[1] = EmptyString \/ ~IsDefined(configOpt)
    THEN None
    ELSE LET parts == FilterBoolean(sessionKeyOpt[1])
             providerParts == IF Len(parts) >= 3 /\ At(parts, 0) = "agent"
                              THEN Slice(parts, 2) ELSE parts
         IN  IF Len(providerParts) = 0 THEN None
             ELSE LET provider == Lower(At(providerParts, 0))
                      kind == IF Len(providerParts) >= 2
                              THEN Some(Lower(At(providerParts, 1))) ELSE None
                      userIdRaw == Join(Slice(providerParts, 2))
                      userId == stripThreadSuffix(userIdRaw)
                  IN  IF kind # Some("dm") THEN None
                      ELSE getLimit(resolveProviderConfig(configOpt[1], provider), userId)

\* the session keys of the grammar agent:(main|sub):<provider>:<kind>:<userId>[:thread:<n>]
AgentKinds == {"main", "sub"}
Providers == {"telegram", "slack"}
SessionKinds == {"dm", "group", "channel"}
UserIds == {<<"u42">>, <<"u7">>, <<"@u", "srv.org">>}
ThreadSuffixes == {<<>>, <<"thread", "1">>, <<"thread", "42">>}
SessionKey(agent, provider, kind, userId, thread) ==
    <<"agent", agent, provider, kind>> \o userId \o thread

\* the configurations: none, no channels, and channels.telegram in several shapes
NoOverrides == [u \in {} |-> [historyLimit |-> None]]
ProviderConfigs ==
    { [dmHistoryLimit |-> Some(2), dms |-> NoOverrides],
      [dmHistoryLimit |-> Some(MaxLimit),
       dms |-> [u \in {<<"u42">>} |-> [historyLimit |-> Some(1)]]],
      [dmHistoryLimit |-> None,
       dms |-> [u \in {<<"u42">>, <<"@u", "srv.org">>} |->
                  IF u = <<"u42">> THEN [historyLimit |-> None]
                  ELSE [historyLimit |-> Some(1)]]],
      [dmHistoryLimit |-> Some(1),
       dms |-> [u \in {<<"u7">>} |-> [historyLimit |-> Some(0)]]] }
OpenClawConfigs ==
    {None, Some([channels |-> None])}
        \cup {Some([channels |-> Some([p \in {"telegram"} |-> pc])]) : pc \in ProviderConfigs}

\* The runner looks up the turn limit of the session and trims the history to it.
LimitHistoryForSession ==
    /\ historyCall.op = "none"
    /\ \E agent \in AgentKinds, provider \in Providers, kind \in SessionKinds,
          userId \in UserIds, thread \in ThreadSuffixes, configOpt \in OpenClawConfigs,
          keyGiven \in BOOLEAN :
          LET sessionKeyOpt == IF keyGiven
                               THEN Some(SessionKey(agent, provider, kind, userId, thread))
                               ELSE None
              limitOpt == getDmHistoryLimitFromSessionKey(sessionKeyOpt, configOpt)
          IN  historyCall' =
                 [op |-> "getDmHistoryLimitFromSessionKey", input |-> messages,
                  budgetTokens |-> 0, preserve |-> None, limit |-> limitOpt,
                  result |-> limitHistoryTurns(messages, limitOpt), rerun |-> None,
                  sessionKey |-> sessionKeyOpt, config |-> configOpt,
                  provider |-> provider, kind |-> kind, userId |-> userId,
                  thread |-> thread]
    /\ UNCHANGED <<messages, budgetConfig, budgetCall, retrieverConfig,
                   searchResults, retrieveCall, summaryConfig, summaryCall,
                   lane, approvals>>

----------------------------------------------------------------------------
(* history.ts (context-budget): ContextBudgetManager *)

\* DEFAULT_CONTEXT_BUDGET_CONFIG, ratios in hundredths
DEFAULT_CONTEXT_BUDGET_CONFIG ==
    [systemPromptRatio |-> 15, bootstrapRatio |-> 10, historyRatio |-> 45,
     responseRatio |-> 20, minResponseTokens |-> 4096]

DEFAULT_CONTEXT_TOKENS == 200000

\* Math.floor(total * ratio), the ratio in hundredths, the product taken exactly
FloorRatio(total, ratio) == (total * ratio) \div 100

ResponseWithFloor(raw, minResponseTokens) ==
    IF raw < minResponseTokens THEN minResponseTokens ELSE raw

\* mutant: history is not reduced to compensate
HistoryAfterDeficit_Unreduced(history, raw, minResponseTokens) == history

HistoryAfterDeficit(history, raw, minResponseTokens) ==
    IF raw < minResponseTokens
    THEN Max(0, history - (minResponseTokens - raw))
    ELSE history

Reserve(total, allocated) == Max(0, total - allocated)

computeBudget(cfg, contextWindow) ==
    LET total == Max(1, contextWindow)
        systemPrompt == FloorRatio(total, cfg.systemPromptRatio)
        bootstrap == FloorRatio(total, cfg.bootstrapRatio)
        rawResponse == FloorRatio(total, cfg.responseRatio)
        response == ResponseWithFloor(rawResponse, cfg.minResponseTokens)
        history == HistoryAfterDeficit(FloorRatio(total, cfg.historyRatio), rawResponse,
                                       cfg.minResponseTokens)
        allocated == systemPrompt + bootstrap + history + response
    IN  [total |-> total, systemPrompt |-> systemPrompt, bootstrap |-> bootstrap,
         history |-> history, response |-> response,
         reserve |-> Reserve(total, allocated)]

\* mutant: the deltas are added unclamped
Reclaimable_Unclamped(systemPromptDelta, bootstrapDelta) ==
    systemPromptDelta + bootstrapDelta

\* mutant: Math.abs in place of Math.max(0, .)
Reclaimable_Abs(systemPromptDelta, bootstrapDelta) ==
    Max(systemPromptDelta, 0 - systemPromptDelta) + Max(bootstrapDelta, 0 - bootstrapDelta)

Reclaimable(systemPromptDelta, bootstrapDelta) ==
    Max(0, systemPromptDelta) + Max(0, bootstrapDelta)

computeHistoryBudget(cfg, usedSystemPrompt, usedBootstrap, windowOpt) ==
    LET budget == computeBudget(cfg, OrElse(windowOpt, DEFAULT_CONTEXT_TOKENS))
        systemPromptDelta == budget.systemPrompt - usedSystemPrompt
        bootstrapDelta == budget.bootstrap - usedBootstrap
    IN  budget.history + Reclaimable(systemPromptDelta, bootstrapDelta) + budget.reserve

validateContextFits(cfg, systemPromptTokens, bootstrapTokens, historyTokens, windowOpt) ==
    LET budget == computeBudget(cfg, OrElse(windowOpt, DEFAULT_CONTEXT_TOKENS))
        totalUsed == systemPromptTokens + bootstrapTokens + historyTokens + budget.response
        overflow == Max(0, totalUsed - budget.total)
    IN  [fits |-> overflow = 0, overflow |-> overflow, budget |-> budget]

\* the windows, the actual system-prompt / bootstrap sizes and the history sizes
\* a caller passes
ContextWindows == (0 .. MaxSmallWindow) \cup {100, 4000, 8000, 10000, 100000, 200000}
WindowOptions == {None} \cup {Some(w) : w \in ContextWindows}
UsedSizes == {0, 2, 10, 1000, 5000, 20000, 25000, 40000}
HistorySizes == {0, 50000, 100000}

NoBudget ==
    [total |-> 0, systemPrompt |-> 0, bootstrap |-> 0, history |-> 0, response |-> 0,
     reserve |-> 0]

NoBudgetCall ==
    [op |-> "none", contextWindow |-> None, systemPrompt |-> 0, bootstrap |-> 0,
     historyTokens |-> 0, budget |-> NoBudget, historyBudget |-> 0, fits |-> FALSE,
     overflow |-> 0]

ComputeBudget ==
    /\ budgetCall.op = "none"
    /\ \E contextWindow \in ContextWindows :
          budgetCall' = [NoBudgetCall EXCEPT
                           !.op = "computeBudget",
                           !.contextWindow = Some(contextWindow),
                           !.budget = computeBudget(budgetConfig, contextWindow)]
    /\ UNCHANGED <<messages, historyCall, budgetConfig, retrieverConfig,
                   searchResults, retrieveCall, summaryConfig, summaryCall,
                   lane, approvals>>

ComputeHistoryBudget ==
    /\ budgetCall.op = "none"
    /\ \E usedSystemPrompt \in UsedSizes, usedBootstrap \in UsedSizes,
          windowOpt \in WindowOptions :
          budgetCall' = [NoBudgetCall EXCEPT
                           !.op = "computeHistoryBudget",
                           !.contextWindow = windowOpt,
                           !.systemPrompt = usedSystemPrompt,
                           !.bootstrap = usedBootstrap,
                           !.budget = computeBudget(budgetConfig,
                                                    OrElse(windowOpt, DEFAULT_CONTEXT_TOKENS)),
                           !.historyBudget = computeHistoryBudget(budgetConfig,
                                                                  usedSystemPrompt,
                                                                  usedBootstrap, windowOpt)]
    /\ UNCHANGED <<messages, historyCall, budgetConfig, retrieverConfig,
                   searchResults, retrieveCall, summaryConfig, summaryCall,
                   lane, approvals>>

\* The caller validates a context whose history holds one of HistorySizes tokens or
\* exactly the history budget computed for the same usage.
ValidateContextFits ==
    /\ budgetCall.op = "none"
    /\ \E systemPromptTokens \in UsedSizes, bootstrapTokens \in UsedSizes,
          windowOpt \in WindowOptions :
       \E historyTokens \in
            HistorySizes \cup {computeHistoryBudget(budgetConfig, systemPromptTokens,
                                                    bootstrapTokens, windowOpt)} :
          LET r == validateContextFits(budgetConfig, systemPromptTokens, bootstrapTokens,
                                       historyTokens, windowOpt)
          IN  budgetCall' = [NoBudgetCall EXCEPT
                               !.op = "validateContextFits",
                               !.contextWindow = windowOpt,
                               !.systemPrompt = systemPromptTokens,
                               !.bootstrap = bootstrapTokens,
                               !.historyTokens = historyTokens,
                               !.budget = r.budget,
                               !.fits = r.fits,
                               !.overflow = r.overflow]
    /\ UNCHANGED <<messages, historyCall, budgetConfig, retrieverConfig,
                   searchResults, retrieveCall, summaryConfig, summaryCall,
                   lane, approvals>>

----------------------------------------------------------------------------
(* semantic-history: SemanticHistoryRetriever *)
(* A snippet is a text, held as its length in characters and the set of    *)
(* 0-based positions of its break characters (".", newline, space).  A     *)
(* score is held in hundredths.                                            *)

DEFAULT_SEMANTIC_HISTORY_CONFIG ==
    [enabled |-> FALSE, maxRetrievedChunks |-> 5, minRelevanceScore |-> 60]

\* "Not worth truncating if less than 100 tokens available"
\* half the room the code asks for before it truncates
MinTruncateTokens_Halved == 100 \div 2

MinTruncateTokens == 100

\* Math.ceil(text.length / 4)
estimateTextTokens(text) == (text.len + 3) \div 4

SetMax(S, default) == IF S = {} THEN default ELSE CHOOSE x \in S : \A y \in S : y <= x

\* text.slice(0, n)
TextSlice(text, n) ==
    [len |-> Min(n, text.len), breaks |-> {b \in text.breaks : b < n}]

\* text + "..."
AppendEllipsis(text) ==
    [len |-> text.len + 3, breaks |-> text.breaks \cup (text.len .. text.len + 2)]

truncateToTokens(text, maxTokens) ==
    LET maxChars == maxTokens * 4
        truncated == TextSlice(text, maxChars)
        \* Math.max(lastPeriod, lastNewline, lastSpace); lastIndexOf gives -1 if absent
        breakPoint == SetMax(truncated.breaks, -1)
    IN  IF text.len <= maxChars THEN text
        ELSE IF 2 * breakPoint > maxChars
             THEN AppendEllipsis(TextSlice(truncated, breakPoint + 1))
             ELSE AppendEllipsis(truncated)

\* a filter that lets every result pass
FilterRelevant_KeepsAll(results, minRelevanceScore) == results

\* results.filter((r) => r.score >= minRelevanceScore)
RECURSIVE FilterRelevant(_, _)
FilterRelevant(results, minRelevanceScore) ==
    IF Len(results) = 0 THEN <<>>
    ELSE IF results[1].score >= minRelevanceScore
         THEN <<results[1]>> \o FilterRelevant(Tail(results), minRelevanceScore)
         ELSE FilterRelevant(Tail(results), minRelevanceScore)

ToContext(result, snippet) ==
    [path |-> result.path, snippet |-> snippet, score |-> result.score,
     tokens |-> estimateTextTokens(snippet)]

\* for (const result of relevant) { ... }, from the i-th relevant result on
RECURSIVE PackLoop(_, _, _, _, _, _)
PackLoop(relevant, i, contexts, totalTokens, budgetTokens, maxRetrievedChunks) ==
    IF i >= Len(relevant) \/ Len(contexts) >= maxRetrievedChunks
    THEN [contexts |-> contexts, totalTokens |-> totalTokens]
    ELSE LET result == At(relevant, i)
             tokens == estimateTextTokens(result.snippet)
             availableTokens == budgetTokens - totalTokens
             truncatedSnippet == truncateToTokens(result.snippet, availableTokens)
             truncatedTokens == estimateTextTokens(truncatedSnippet)
         IN  IF totalTokens + tokens > budgetTokens
             THEN IF availableTokens < MinTruncateTokens
                  THEN [contexts |-> contexts, totalTokens |-> totalTokens]
                  ELSE [contexts |-> Append(contexts, ToContext(result, truncatedSnippet)),
                        totalTokens |-> totalTokens + truncatedTokens]
             ELSE PackLoop(relevant, i + 1,
                           Append(contexts, ToContext(result, result.snippet)),
                           totalTokens + tokens, budgetTokens, maxRetrievedChunks)

\* an early return that reports a retrieval
EmptyRetrieval_Retrieved == [contexts |-> <<>>, totalTokens |-> 0, didRetrieve |-> TRUE]

EmptyRetrieval == [contexts |-> <<>>, totalTokens |-> 0, didRetrieve |-> FALSE]

\* retrieve; promptBlank: !currentPrompt.trim(); searchOk: the provider's promise resolves
retrieve(cfg, promptBlank, results, searchOk, budgetTokens) ==
    IF ~cfg.enabled THEN EmptyRetrieval
    ELSE IF promptBlank \/ budgetTokens <= 0 THEN EmptyRetrieval
    ELSE IF ~searchOk THEN EmptyRetrieval
    ELSE LET relevant == FilterRelevant(results, cfg.minRelevanceScore)
             packed == PackLoop(relevant, 0, <<>>, 0, budgetTokens, cfg.maxRetrievedChunks)
         IN  [contexts |-> packed.contexts, totalTokens |-> packed.totalTokens,
              didRetrieve |-> TRUE]

\* whether retrieve gets as far as memorySearch.search: past both early returns
SearchReached(cfg, promptBlank, budgetTokens) ==
    IF ~cfg.enabled THEN FALSE
    ELSE IF promptBlank \/ budgetTokens <= 0 THEN FALSE
    ELSE TRUE

NoRetrieveCall ==
    [op |-> "none", promptBlank |-> FALSE, searchOk |-> TRUE, searched |-> FALSE,
     budgetTokens |-> 0, result |-> EmptyRetrieval]

\* the budgets a caller passes
RetrieveBudgets == {0, 6, 15, 99, 100, 125, 131, 250}

Retrieve ==
    /\ retrieveCall.op = "none"
    /\ \E promptBlank \in BOOLEAN, searchOk \in BOOLEAN, budgetTokens \in RetrieveBudgets :
          retrieveCall' =
             [op |-> "retrieve", promptBlank |-> promptBlank, searchOk |-> searchOk,
              searched |-> SearchReached(retrieverConfig, promptBlank, budgetTokens),
              budgetTokens |-> budgetTokens,
              result |-> retrieve(retrieverConfig, promptBlank, searchResults, searchOk,
                                  budgetTokens)]
    /\ UNCHANGED <<messages, historyCall, budgetConfig, budgetCall, retrieverConfig,
                   searchResults, summaryConfig, summaryCall,
                   lane, approvals>>

----------------------------------------------------------------------------
(* rolling-summary: RollingSummarizer *)

DEFAULT_ROLLING_SUMMARY_CONFIG ==
    [enabled |-> FALSE, windowSize |-> 5, summaryMaxTokens |-> 2000,
     triggerThreshold |-> 30000]

MinSummaryBudget == 500
ResponseBuffer == 1000

EmptyText == [len |-> 0, breaks |-> {}]

\* budgetTokens is optional; a budget of 0 is falsy like undefined.
\* totalTokens > Math.min(triggerThreshold, budgetTokens * 0.8), compared in tenths
shouldSummarize(cfg, ms, budgetOpt) ==
    IF ~cfg.enabled THEN FALSE
    ELSE LET totalTokens == estimateMessagesTokens(ms)
             threshold10 == IF IsDefined(budgetOpt) /\ budgetOpt[1] # 0
                            THEN Min(cfg.triggerThreshold * 10, budgetOpt[1] * 8)
                            ELSE cfg.triggerThreshold * 10
         IN  totalTokens * 10 > threshold10

\* the loop of splitByTurns, from index i downwards
RECURSIVE SplitLoop(_, _, _, _, _)
SplitLoop(ms, windowSize, i, userTurnCount, splitIndex) ==
    IF i < 0 THEN splitIndex
    ELSE IF At(ms, i).role = "user"
         THEN IF userTurnCount + 1 > windowSize
              THEN i + 1
              ELSE SplitLoop(ms, windowSize, i - 1, userTurnCount + 1, i)
         ELSE SplitLoop(ms, windowSize, i - 1, userTurnCount, splitIndex)

\* a split whose recent part starts one message after the split index
splitByTurns_SkipsBoundary(cfg, ms) ==
    IF Len(ms) = 0 THEN [recentMessages |-> <<>>, olderMessages |-> <<>>]
    ELSE LET splitIndex == SplitLoop(ms, cfg.windowSize, Len(ms) - 1, 0, Len(ms))
         IN  IF splitIndex <= 0
             THEN [recentMessages |-> ms, olderMessages |-> <<>>]
             ELSE [recentMessages |-> Slice(ms, splitIndex + 1),
                   olderMessages |-> SliceTo(ms, splitIndex)]

splitByTurns(cfg, ms) ==
    IF Len(ms) = 0 THEN [recentMessages |-> <<>>, olderMessages |-> <<>>]
    ELSE LET splitIndex == SplitLoop(ms, cfg.windowSize, Len(ms) - 1, 0, Len(ms))
         IN  IF splitIndex <= 0
             THEN [recentMessages |-> ms, olderMessages |-> <<>>]
             ELSE [recentMessages |-> Slice(ms, splitIndex),
                   olderMessages |-> SliceTo(ms, splitIndex)]

\* a catch block that forgets the summary it was given
SummaryFallback_NoSummary(split, existingText) ==
    [recentMessages |-> split.recentMessages,
     summaryText |-> EmptyText,
     totalTokens |-> estimateMessagesTokens(split.recentMessages),
     didSummarize |-> FALSE,
     summarizedMessageCount |-> 0]

\* what the catch block of buildContextWithSummary returns
SummaryFallback(split, existingText) ==
    [recentMessages |-> split.recentMessages,
     summaryText |-> existingText,
     totalTokens |-> estimateMessagesTokens(split.recentMessages)
                        + estimateTextTokens(existingText),
     didSummarize |-> FALSE,
     summarizedMessageCount |-> 0]

\* summarizer: [ok, text], the outcome of summarizeInStages (resolve with a text, or reject)
buildContextWithSummary(cfg, ms, budget, existingOpt, summarizer) ==
    LET existingText == OrElse(existingOpt, EmptyText)
        asIs == [recentMessages |-> ms,
                 summaryText |-> existingText,
                 totalTokens |-> estimateMessagesTokens(ms) + estimateTextTokens(existingText),
                 didSummarize |-> FALSE,
                 summarizedMessageCount |-> 0]
        split == splitByTurns(cfg, ms)
        recentTokens == estimateMessagesTokens(split.recentMessages)
    IN  IF ~shouldSummarize(cfg, ms, Some(budget)) THEN asIs
        ELSE IF Len(split.olderMessages) = 0 THEN asIs
        ELSE IF summarizer.ok
             THEN [recentMessages |-> split.recentMessages,
                   summaryText |-> summarizer.text,
                   totalTokens |-> recentTokens + estimateTextTokens(summarizer.text),
                   didSummarize |-> TRUE,
                   summarizedMessageCount |-> Len(split.olderMessages)]
             ELSE SummaryFallback(split, existingText)

\* reserveTokens handed to summarizeInStages
SummaryBudget(cfg, budget, recentTokens) ==
    Min(cfg.summaryMaxTokens, Max(MinSummaryBudget, budget - recentTokens - ResponseBuffer))

\* whether buildContextWithSummary reaches the call of summarizeInStages
SummarizerInvoked(cfg, ms, budget) ==
    /\ shouldSummarize(cfg, ms, Some(budget))
    /\ Len(splitByTurns(cfg, ms).olderMessages) > 0

NoSummaryResult ==
    [recentMessages |-> <<>>, summaryText |-> EmptyText, totalTokens |-> 0,
     didSummarize |-> FALSE, summarizedMessageCount |-> 0]

\* budgetGiven: whether the optional budgetTokens of shouldSummarize was passed;
\* should: what shouldSummarize answered
NoSummaryCall ==
    [op |-> "none", input |-> <<>>, budget |-> 0, budgetGiven |-> FALSE,
     should |-> FALSE, existingSummary |-> None,
     invoked |-> FALSE, summarizerOk |-> FALSE, result |-> NoSummaryResult]

\* the budgets and the existing summary a caller passes, and what summarizeInStages
\* may do: reject, or resolve with a short or a long text
SummaryBudgets == {0, 5, MaxBudget, 100000}
ExistingSummary == [len |-> 21, breaks |-> {8, 16}]
SummarizerOutcomes ==
    { [ok |-> FALSE, text |-> EmptyText],
      [ok |-> TRUE, text |-> [len |-> 4, breaks |-> {}]],
      [ok |-> TRUE, text |-> [len |-> 8000, breaks |-> {}]] }

BuildContextWithSummary ==
    /\ summaryCall.op = "none"
    /\ \E budget \in SummaryBudgets, existingOpt \in {None, Some(ExistingSummary)},
          summarizer \in SummarizerOutcomes :
          summaryCall' =
             [op |-> "buildContextWithSummary", input |-> messages, budget |-> budget,
              budgetGiven |-> TRUE,
              should |-> shouldSummarize(summaryConfig, messages, Some(budget)),
              existingSummary |-> existingOpt,
              invoked |-> SummarizerInvoked(summaryConfig, messages, budget),
              summarizerOk |-> SummarizerInvoked(summaryConfig, messages, budget)
                                  /\ summarizer.ok,
              result |-> buildContextWithSummary(summaryConfig, messages, budget,
                                                 existingOpt, summarizer)]
    /\ UNCHANGED <<messages, historyCall, budgetConfig, budgetCall, retrieverConfig,
                   searchResults, retrieveCall, summaryConfig,
                   lane, approvals>>

\* A caller asks whether the history is due for summarisation.
ShouldSummarize ==
    /\ summaryCall.op = "none"
    /\ \E budgetOpt \in {None} \cup {Some(b) : b \in SummaryBudgets} :
          summaryCall' =
             [NoSummaryCall EXCEPT !.op = "shouldSummarize",
                                   !.input = messages,
                                   !.budget = OrElse(budgetOpt, 0),
                                   !.budgetGiven = IsDefined(budgetOpt),
                                   !.should = shouldSummarize(summaryConfig, messages,
                                                              budgetOpt)]
    /\ UNCHANGED <<messages, historyCall, budgetConfig, budgetCall, retrieverConfig,
                   searchResults, retrieveCall, summaryConfig,
                   lane, approvals>>

----------------------------------------------------------------------------
(* The factories that read the contextManagement section of the            *)
(* configuration.  A section is a record of optional knobs (None: the knob  *)
(* is omitted or undefined); a Partial<Config> object is a function from    *)
(* the keys it holds to their values.                                      *)

\* contextManagement: undefined, null, or an object with optional sections
NoSections == [budget |-> None, rollingSummary |-> None, semanticHistory |-> None]
ContextManagementUndefined == [kind |-> "undefined", sections |-> NoSections]
ContextManagementNull == [kind |-> "null", sections |-> NoSections]
ContextManagementObject(sections) == [kind |-> "object", sections |-> sections]

\* contextManagement?.<name>
SectionOf(contextManagement, name) ==
    IF contextManagement.kind # "object" THEN None
    ELSE contextManagement.sections[name]

\* if (cfg.<knob> !== undefined) config.<knob> = cfg.<knob>, for every knob
PickDefined(section) ==
    [k \in {x \in DOMAIN section : IsDefined(section[x])} |-> section[k][1]]

\* { ...config, ...defaults }: the defaults are spread last and win
Spread_DefaultsWin(defaults, config) ==
    [k \in DOMAIN defaults \cup DOMAIN config |->
        IF k \in DOMAIN defaults THEN defaults[k] ELSE config[k]]

\* { ...defaults, ...config }
Spread(defaults, config) ==
    [k \in DOMAIN defaults |-> IF k \in DOMAIN config THEN config[k] ELSE defaults[k]]

\* new Manager(): the constructor's config is undefined, nothing is spread over
EmptyPartial == [k \in {} |-> 0]

createBudgetManagerFromConfig(contextManagement) ==
    LET budget == SectionOf(contextManagement, "budget")
    IN  IF ~IsDefined(budget) THEN Spread(DEFAULT_CONTEXT_BUDGET_CONFIG, EmptyPartial)
        ELSE Spread(DEFAULT_CONTEXT_BUDGET_CONFIG, PickDefined(budget[1]))

createRollingSummarizerFromConfig(contextManagement) ==
    LET cfg == SectionOf(contextManagement, "rollingSummary")
    IN  IF ~IsDefined(cfg) THEN Spread(DEFAULT_ROLLING_SUMMARY_CONFIG, EmptyPartial)
        ELSE Spread(DEFAULT_ROLLING_SUMMARY_CONFIG, PickDefined(cfg[1]))

\* { ...defaults, ...config } for an object whose keys may hold undefined: a key of
\* config wins even then.  The result holds every knob as an option.
SpreadUndefined(defaults, config) ==
    [k \in DOMAIN defaults |-> IF k \in DOMAIN config THEN config[k] ELSE Some(defaults[k])]

\* new SemanticHistoryRetriever({enabled: cfg.enabled, maxRetrievedChunks:
\* cfg.maxRetrievedChunks, minRelevanceScore: cfg.minRelevanceScore}): the object
\* literal holds all three keys, an omitted knob as undefined
createSemanticHistoryRetrieverFromConfig(contextManagement) ==
    LET cfg == SectionOf(contextManagement, "semanticHistory")
    IN  IF ~IsDefined(cfg) THEN SpreadUndefined(DEFAULT_SEMANTIC_HISTORY_CONFIG, EmptyPartial)
        ELSE SpreadUndefined(DEFAULT_SEMANTIC_HISTORY_CONFIG, cfg[1])

\* the sections a configuration file may hold
OptionsOf(S) == {None} \cup {Some(v) : v \in S}
BudgetSections ==
    [systemPromptRatio : OptionsOf({0, 20}), bootstrapRatio : OptionsOf({5}),
     historyRatio : OptionsOf({55, 60}), responseRatio : OptionsOf({25}),
     minResponseTokens : OptionsOf({0, 8192})]
RollingSummarySections ==
    [enabled : OptionsOf(BOOLEAN), windowSize : OptionsOf({0, 10}),
     summaryMaxTokens : OptionsOf({5000}), triggerThreshold : OptionsOf({0, 50000})]

SemanticHistorySections ==
    [enabled : OptionsOf(BOOLEAN), maxRetrievedChunks : OptionsOf({1, 10}),
     minRelevanceScore : OptionsOf({0, 80})]

RetrieverContextManagements ==
    {ContextManagementUndefined, ContextManagementNull, ContextManagementObject(NoSections)}
        \cup {ContextManagementObject([NoSections EXCEPT !.semanticHistory = Some(s)]) :
                 s \in SemanticHistorySections}

BudgetContextManagements ==
    {ContextManagementUndefined, ContextManagementNull, ContextManagementObject(NoSections)}
        \cup {ContextManagementObject([NoSections EXCEPT !.budget = Some(s)]) :
                 s \in BudgetSections}
SummaryContextManagements ==
    {ContextManagementUndefined, ContextManagementNull, ContextManagementObject(NoSections)}
        \cup {ContextManagementObject([NoSections EXCEPT !.rollingSummary = Some(s)]) :
                 s \in RollingSummarySections}

\* The runner builds the budget manager of a configuration.
CreateBudgetManagerFromConfig ==
    /\ budgetCall.op = "none"
    /\ \E contextManagement \in BudgetContextManagements :
          /\ budgetConfig' = createBudgetManagerFromConfig(contextManagement)
          /\ budgetCall' = [op |-> "createBudgetManagerFromConfig",
                            contextManagement |-> contextManagement]
    /\ UNCHANGED <<messages, historyCall, retrieverConfig, searchResults, retrieveCall,
                   summaryConfig, summaryCall,
                   lane, approvals>>

\* The runner builds the rolling summarizer of a configuration.
CreateRollingSummarizerFromConfig ==
    /\ summaryCall.op = "none"
    /\ \E contextManagement \in SummaryContextManagements :
          /\ summaryConfig' = createRollingSummarizerFromConfig(contextManagement)
          /\ summaryCall' = [op |-> "createRollingSummarizerFromConfig",
                             contextManagement |-> contextManagement]
    /\ UNCHANGED <<messages, historyCall, budgetConfig, budgetCall, retrieverConfig,
                   searchResults, retrieveCall,
                   lane, approvals>>

\* The runner builds the semantic history retriever of a configuration.  The
\* configuration of the new retriever is recorded knob by knob as an option, None
\* for a knob the object holds as undefined.
CreateSemanticHistoryRetrieverFromConfig ==
    /\ retrieveCall.op = "none"
    /\ \E contextManagement \in RetrieverContextManagements :
          retrieveCall' = [op |-> "createSemanticHistoryRetrieverFromConfig",
                           contextManagement |-> contextManagement,
                           config |-> createSemanticHistoryRetrieverFromConfig(
                                          contextManagement)]
    /\ UNCHANGED <<messages, historyCall, budgetConfig, budgetCall, retrieverConfig,
                   searchResults, summaryConfig, summaryCall, lane, approvals>>

----------------------------------------------------------------------------
(* Lane scheduler: a named bounded semaphore.  acquire suspends when the    *)
(* lane is saturated and wakes callers FIFO; a cancelled waiter is removed  *)
(* and does not wake; a holder leaves on completion or error.  A task asks  *)
(* for the lane once.                                                      *)

Tasks == 1 .. MaxTasks
DefaultConcurrency == 1

NoLane ==
    [concurrency |-> DefaultConcurrency, holders |-> {}, waiters |-> <<>>,
     cancelled |-> {}, completed |-> {}, failed |-> {}]

Waiting(l) == {l.waiters[i] : i \in 1 .. Len(l.waiters)}
TaskIsNew(l, t) ==
    t \notin l.holders \cup Waiting(l) \cup l.cancelled \cup l.completed \cup l.failed

\* a lane that admits one holder more than configured
LaneHasRoom_OneMore(l) == Cardinality(l.holders) <= l.concurrency

\* the lane is not saturated
LaneHasRoom(l) == Cardinality(l.holders) < l.concurrency

\* the queue without task t
RECURSIVE RemoveWaiter(_, _)
RemoveWaiter(waiters, t) ==
    IF Len(waiters) = 0 THEN <<>>
    ELSE IF Head(waiters) = t THEN RemoveWaiter(Tail(waiters), t)
    ELSE <<Head(waiters)>> \o RemoveWaiter(Tail(waiters), t)

\* holder t leaves the lane; the first waiter, if any, is woken into its place
ReleaseLane(l, t) ==
    LET freed == [l EXCEPT !.holders = l.holders \ {t}]
    IN  IF Len(freed.waiters) > 0 /\ LaneHasRoom(freed)
        THEN [freed EXCEPT !.holders = freed.holders \cup {Head(freed.waiters)},
                           !.waiters = Tail(freed.waiters)]
        ELSE freed

\* acquire(lane): enter at once when there is room and nobody waits, else queue up
Acquire ==
    /\ \E t \in Tasks :
          /\ TaskIsNew(lane, t)
          /\ lane' = IF LaneHasRoom(lane) /\ Len(lane.waiters) = 0
                     THEN [lane EXCEPT !.holders = lane.holders \cup {t}]
                     ELSE [lane EXCEPT !.waiters = Append(lane.waiters, t)]
    /\ UNCHANGED <<messages, historyCall, budgetConfig, budgetCall, retrieverConfig,
                   searchResults, retrieveCall, summaryConfig, summaryCall, approvals>>

\* a holder completes its task and releases the lane
Release ==
    /\ \E t \in lane.holders :
          lane' = [ReleaseLane(lane, t) EXCEPT !.completed = lane.completed \cup {t}]
    /\ UNCHANGED <<messages, historyCall, budgetConfig, budgetCall, retrieverConfig,
                   searchResults, retrieveCall, summaryConfig, summaryCall, approvals>>

\* the task of a holder fails; the lane is released on this exit path too
HolderError ==
    /\ \E t \in lane.holders :
          lane' = [ReleaseLane(lane, t) EXCEPT !.failed = lane.failed \cup {t}]
    /\ UNCHANGED <<messages, historyCall, budgetConfig, budgetCall, retrieverConfig,
                   searchResults, retrieveCall, summaryConfig, summaryCall, approvals>>

\* a waiter is cancelled while it waits for the lane
CancelWaiter ==
    /\ \E t \in Waiting(lane) :
          lane' = [lane EXCEPT !.waiters = RemoveWaiter(lane.waiters, t),
                               !.cancelled = lane.cancelled \cup {t}]
    /\ UNCHANGED <<messages, historyCall, budgetConfig, budgetCall, retrieverConfig,
                   searchResults, retrieveCall, summaryConfig, summaryCall, approvals>>

----------------------------------------------------------------------------
(* Approval broker: issues an approval for the digest of an invocation,     *)
(* takes one decision while the approval is pending, expires pending        *)
(* approvals, and lets a granted approval be used by one execution whose    *)
(* digest matches.                                                         *)

ApprovalIds == 1 .. MaxApprovals
Digests == {"d1", "d2"}

NoApprovals ==
    [table |-> [id \in ApprovalIds |-> [state |-> "unissued", digest |-> "d1"]],
     executions |-> <<>>]

\* an execution check that does not compare digests
ExecutionOutcome_AnyDigest(record, digest) ==
    IF record.state = "granted" THEN "executed" ELSE "rejected"

\* the broker's answer to an execution with approval `record` and arguments `digest`
ExecutionOutcome(record, digest) ==
    IF record.state = "granted" /\ record.digest = digest
    THEN "executed"
    ELSE "rejected"

\* a granted approval is used up by the attempt, matching or not
StateAfterExecution(record) ==
    IF record.state = "granted" THEN "consumed" ELSE record.state

\* the runtime asks for approval of an invocation: a fresh id, state pending
RequestApproval ==
    /\ \E id \in ApprovalIds, digest \in Digests :
          /\ approvals.table[id].state = "unissued"
          /\ approvals' = [approvals EXCEPT
                              !.table[id] = [state |-> "pending", digest |-> digest]]
    /\ UNCHANGED <<messages, historyCall, budgetConfig, budgetCall, retrieverConfig,
                   searchResults, retrieveCall, summaryConfig, summaryCall, lane>>

\* approval.decide: accepted only while the approval is pending
DecideApproval ==
    /\ \E id \in ApprovalIds, decision \in {"granted", "denied"} :
          /\ approvals.table[id].state = "pending"
          /\ approvals' = [approvals EXCEPT !.table[id].state = decision]
    /\ UNCHANGED <<messages, historyCall, budgetConfig, budgetCall, retrieverConfig,
                   searchResults, retrieveCall, summaryConfig, summaryCall, lane>>

\* the TTL of a pending approval runs out
ExpireApproval ==
    /\ \E id \in ApprovalIds :
          /\ approvals.table[id].state = "pending"
          /\ approvals' = [approvals EXCEPT !.table[id].state = "expired"]
    /\ UNCHANGED <<messages, historyCall, budgetConfig, budgetCall, retrieverConfig,
                   searchResults, retrieveCall, summaryConfig, summaryCall, lane>>

\* an execution is attempted with an approval id and the digest of its arguments
ExecuteApproved ==
    /\ Len(approvals.executions) < MaxExecutions
    /\ \E id \in ApprovalIds, digest \in Digests :
          /\ approvals.table[id].state # "unissued"
          /\ approvals' =
                [approvals EXCEPT
                   !.table[id].state = StateAfterExecution(approvals.table[id]),
                   !.executions = Append(approvals.executions,
                                         [approvalId |-> id, digest |-> digest,
                                          granted |-> approvals.table[id].state = "granted",
                                          outcome |-> ExecutionOutcome(approvals.table[id],
                                                                       digest)])]
    /\ UNCHANGED <<messages, historyCall, budgetConfig, budgetCall, retrieverConfig,
                   searchResults, retrieveCall, summaryConfig, summaryCall, lane>>

----------------------------------------------------------------------------
(* Specifications.  Each takes its inputs from bounded sets in Init and    *)
(* applies an operation of one component to them.  The operations are      *)
(* functions of their inputs and the configuration, so each behaviour      *)
(* makes one call (the guard op = "none" of each action); the other         *)
(* components idle.                                                        *)

HistoryIdle == messages = <<>> /\ historyCall = NoHistoryCall
ControlPlaneIdle == lane = NoLane /\ approvals = NoApprovals
BudgetIdle == budgetConfig = DEFAULT_CONTEXT_BUDGET_CONFIG /\ budgetCall = NoBudgetCall
RetrieveIdle ==
    /\ retrieverConfig = DEFAULT_SEMANTIC_HISTORY_CONFIG
    /\ searchResults = <<>>
    /\ retrieveCall = NoRetrieveCall
SummaryIdle == summaryConfig = DEFAULT_ROLLING_SUMMARY_CONFIG /\ summaryCall = NoSummaryCall

(* -- history selection -- *)

HistoryInit ==
    /\ messages \in Histories
    /\ historyCall = NoHistoryCall
    /\ BudgetIdle /\ RetrieveIdle /\ SummaryIdle /\ ControlPlaneIdle

HistoryNext == LimitHistoryByTokens \/ LimitHistoryTurns \/ RerunHistorySelection

SpecHistory == HistoryInit /\ [][HistoryNext]_vars

(* -- context budget -- *)

BudgetConfigs ==
    { DEFAULT_CONTEXT_BUDGET_CONFIG,
      [DEFAULT_CONTEXT_BUDGET_CONFIG EXCEPT !.minResponseTokens = 0],
      [DEFAULT_CONTEXT_BUDGET_CONFIG EXCEPT !.minResponseTokens = 8],
      [systemPromptRatio |-> 20, bootstrapRatio |-> 5, historyRatio |-> 50,
       responseRatio |-> 25, minResponseTokens |-> 4096],
      [DEFAULT_CONTEXT_BUDGET_CONFIG EXCEPT !.responseRatio = 1,
                                            !.minResponseTokens = 2000] }


BudgetInit ==
    /\ budgetConfig \in BudgetConfigs
    /\ budgetCall = NoBudgetCall
    /\ HistoryIdle /\ RetrieveIdle /\ SummaryIdle /\ ControlPlaneIdle

BudgetNext == ComputeBudget \/ ComputeHistoryBudget \/ ValidateContextFits

SpecBudget == BudgetInit /\ [][BudgetNext]_vars

(* -- semantic retrieval -- *)

MaxResults == 3      \* longest answer of the search provider

Snippets ==
    { [len |-> 24, breaks |-> {4, 7, 9, 14, 22}],
      [len |-> 500, breaks |-> {}],
      [len |-> 600, breaks |-> {100, 300}],
      [len |-> 800, breaks |-> {399, 650}] }
Scores == {50, 90}
ResultKinds == [snippet : Snippets, score : Scores]

RetrieverConfigs ==
    { DEFAULT_SEMANTIC_HISTORY_CONFIG,
      [DEFAULT_SEMANTIC_HISTORY_CONFIG EXCEPT !.enabled = TRUE],
      [enabled |-> TRUE, maxRetrievedChunks |-> 2, minRelevanceScore |-> 50],
      [enabled |-> TRUE, maxRetrievedChunks |-> 1, minRelevanceScore |-> 60] }

RetrieveInit ==
    /\ retrieverConfig \in RetrieverConfigs
    /\ \E raw \in SeqsUpTo(ResultKinds, MaxResults) :
          searchResults = [i \in 1 .. Len(raw) |->
                             [path |-> i, snippet |-> raw[i].snippet, score |-> raw[i].score]]
    /\ retrieveCall = NoRetrieveCall
    /\ HistoryIdle /\ BudgetIdle /\ SummaryIdle /\ ControlPlaneIdle

RetrieveNext == Retrieve

SpecRetrieve == RetrieveInit /\ [][RetrieveNext]_vars

(* -- rolling summarisation -- *)

SummaryConfigs ==
    { DEFAULT_ROLLING_SUMMARY_CONFIG,
      [DEFAULT_ROLLING_SUMMARY_CONFIG EXCEPT !.enabled = TRUE] }
    \cup { [enabled |-> TRUE, windowSize |-> w, summaryMaxTokens |-> 2000,
            triggerThreshold |-> 2] : w \in 0 .. MaxPreserve }

SummaryInit ==
    /\ messages \in Histories
    /\ historyCall = NoHistoryCall
    /\ summaryConfig \in SummaryConfigs
    /\ summaryCall = NoSummaryCall
    /\ BudgetIdle /\ RetrieveIdle /\ ControlPlaneIdle

SummaryNext == BuildContextWithSummary \/ ShouldSummarize

SpecSummary == SummaryInit /\ [][SummaryNext]_vars

(* -- history selection within the history budget of a window -- *)

\* the windows and the system-prompt / bootstrap sizes of the combined run
SelectionWindows == {0, MaxSmallWindow}
SelectionUsedSizes == {0, 2}

\* A caller computes the history budget of a window and trims the session history
\* to it.
SelectHistoryWithinWindow ==
    /\ budgetCall.op = "none" /\ historyCall.op = "none"
    /\ \E contextWindow \in SelectionWindows, used \in SelectionUsedSizes,
          preserveOpt \in PreserveOptions :
          LET historyBudget == computeHistoryBudget(budgetConfig, used, used,
                                                    Some(contextWindow))
          IN  /\ budgetCall' = [NoBudgetCall EXCEPT
                                  !.op = "computeHistoryBudget",
                                  !.contextWindow = Some(contextWindow),
                                  !.systemPrompt = used,
                                  !.bootstrap = used,
                                  !.budget = computeBudget(budgetConfig, contextWindow),
                                  !.historyBudget = historyBudget]
              /\ historyCall' = [NoHistoryCall EXCEPT
                                   !.op = "limitHistoryByTokens",
                                   !.input = messages,
                                   !.budgetTokens = historyBudget,
                                   !.preserve = preserveOpt,
                                   !.result = limitHistoryByTokens(messages, historyBudget,
                                                                   preserveOpt)]
    /\ UNCHANGED <<messages, budgetConfig, retrieverConfig, searchResults, retrieveCall,
                   summaryConfig, summaryCall,
                   lane, approvals>>

WindowInit ==
    /\ messages \in Histories
    /\ historyCall = NoHistoryCall
    /\ budgetConfig \in BudgetConfigs
    /\ budgetCall = NoBudgetCall
    /\ RetrieveIdle /\ SummaryIdle /\ ControlPlaneIdle

WindowNext == SelectHistoryWithinWindow

SpecWindow == WindowInit /\ [][WindowNext]_vars

(* -- factories -- *)

FactoryInit == HistoryIdle /\ BudgetIdle /\ RetrieveIdle /\ SummaryIdle /\ ControlPlaneIdle

FactoryNext ==
    \/ CreateBudgetManagerFromConfig
    \/ CreateRollingSummarizerFromConfig
    \/ CreateSemanticHistoryRetrieverFromConfig

SpecFactory == FactoryInit /\ [][FactoryNext]_vars

(* -- lane scheduler -- *)

LaneInit ==
    /\ lane \in {[NoLane EXCEPT !.concurrency = c] : c \in {DefaultConcurrency, 2}}
    /\ approvals = NoApprovals
    /\ HistoryIdle /\ BudgetIdle /\ RetrieveIdle /\ SummaryIdle

LaneNext == Acquire \/ Release \/ HolderError \/ CancelWaiter

SpecLane == LaneInit /\ [][LaneNext]_vars

(* -- approval broker -- *)

ApprovalInit ==
    /\ approvals = NoApprovals
    /\ lane = NoLane
    /\ HistoryIdle /\ BudgetIdle /\ RetrieveIdle /\ SummaryIdle

ApprovalNext == RequestApproval \/ DecideApproval \/ ExpireApproval \/ ExecuteApproved

SpecApproval == ApprovalInit /\ [][ApprovalNext]_vars

(* -- session turn limit -- *)

\* histories of user and assistant messages of one token each
SessionHistories ==
    {h \in Histories : \A i \in 1 .. Len(h) :
        h[i].tokens = 1 /\ h[i].role \in {"user", "assistant"}}

SessionInit ==
    /\ messages \in SessionHistories
    /\ historyCall = NoHistoryCall
    /\ BudgetIdle /\ RetrieveIdle /\ SummaryIdle /\ ControlPlaneIdle

SessionNext == LimitHistoryForSession

SpecSession == SessionInit /\ [][SessionNext]_vars

----------------------------------------------------------------------------
(* Claims about token-based history selection (SpecHistory) *)

\* the 0-based index of the n-th-from-last user message of ms (n >= 1, enough users)
NthLastUserIndex(ms, n) ==
    CHOOSE i \in UserIndices(ms) : Cardinality({j \in UserIndices(ms) : j >= i}) = n

\* the messages from the n-th-from-last user message onward; the whole history when
\* it holds fewer than n user messages; nothing for n <= 0
RecentTurns(ms, n) ==
    IF n <= 0 THEN <<>>
    ELSE IF Cardinality(UserIndices(ms)) < n THEN ms
    ELSE Slice(ms, NthLastUserIndex(ms, n))

\* C1: limitHistoryByTokens with a budget > 0 keeps every message from the
\* preserveRecentTurns-th-from-last user message onward (the whole history when it
\* has fewer user messages), even when those messages alone exceed the budget.
C1_RecentTurnsAlwaysKept ==
    (historyCall.op = "limitHistoryByTokens" /\ historyCall.budgetTokens > 0)
        => IsSuffix(RecentTurns(historyCall.input,
                                OrElse(historyCall.preserve, DefaultPreserveRecentTurns)),
                    historyCall.result)

\* C7: whenever token-trimming drops at least one message and the result is
\* non-empty, the first surviving message has role user.
C7_FirstSurvivorIsUser ==
    (/\ historyCall.op = "limitHistoryByTokens"
     /\ Len(historyCall.result) < Len(historyCall.input)
     /\ Len(historyCall.result) > 0)
        => historyCall.result[1].role = "user"

----------------------------------------------------------------------------
(* Claims about the context budget (SpecBudget) *)

Allocated(budget) ==
    budget.systemPrompt + budget.bootstrap + budget.history + budget.response

\* the context window a call works with
CallWindow == Max(1, OrElse(budgetCall.contextWindow, DEFAULT_CONTEXT_TOKENS))

\* C2: computeBudget returns reserve = total - (systemPrompt + bootstrap + history +
\* response) with reserve >= 0, so the five parts never exceed the context window.
C2_PartsSumToTotal ==
    budgetCall.op = "computeBudget"
        => /\ budgetCall.budget.reserve >= 0
           /\ budgetCall.budget.reserve
                 = budgetCall.budget.total - Allocated(budgetCall.budget)
           /\ Allocated(budgetCall.budget) + budgetCall.budget.reserve
                 <= budgetCall.budget.total

\* C4 as claimed: for every actual system-prompt and bootstrap size, a history of at
\* most computeHistoryBudget tokens fits (fits = TRUE, overflow = 0).
C4_HistoryBudgetAlwaysFits ==
    (/\ budgetCall.op = "validateContextFits"
     /\ budgetCall.historyTokens
           <= computeHistoryBudget(budgetConfig, budgetCall.systemPrompt,
                                   budgetCall.bootstrap, budgetCall.contextWindow))
        => budgetCall.fits /\ budgetCall.overflow = 0

\* C4 as amended: a history of at most computeHistoryBudget tokens overflows the
\* window by no more than the excess of the system prompt and of the bootstrap over
\* their allocations plus the excess of the allocated parts over the total; it fits
\* when all three are zero.
C4_OverflowBoundedByExcess ==
    (/\ budgetCall.op = "validateContextFits"
     /\ budgetCall.historyTokens
           <= computeHistoryBudget(budgetConfig, budgetCall.systemPrompt,
                                   budgetCall.bootstrap, budgetCall.contextWindow))
        => LET b == budgetCall.budget
               excess == Max(0, budgetCall.systemPrompt - b.systemPrompt)
                            + Max(0, budgetCall.bootstrap - b.bootstrap)
                            + Max(0, Allocated(b) - b.total)
           IN  /\ budgetCall.overflow <= excess
               /\ budgetCall.fits = (budgetCall.overflow = 0)
               /\ excess = 0 => budgetCall.fits
               /\ budgetCall.systemPrompt + budgetCall.bootstrap
                     + budgetCall.historyTokens + b.response
                     = b.total + budgetCall.overflow
                  \/ budgetCall.overflow = 0

\* a history of exactly the history budget, within the allocations, fits
C4_Witness ==
    /\ budgetCall.op = "validateContextFits"
    /\ budgetCall.historyTokens > 0
    /\ budgetCall.historyTokens
          = computeHistoryBudget(budgetConfig, budgetCall.systemPrompt,
                                 budgetCall.bootstrap, budgetCall.contextWindow)
    /\ budgetCall.systemPrompt > 0
    /\ budgetCall.systemPrompt < budgetCall.budget.systemPrompt
    /\ budgetCall.bootstrap < budgetCall.budget.bootstrap
    /\ budgetCall.fits

\* C5: computeHistoryBudget returns history + max(0, systemPrompt allocation - used)
\* + max(0, bootstrap allocation - used) + reserve, never less than history +
\* reserve; window 200000 with the default ratios gives 135000 for 20000/5000 used
\* and 110000 for 40000/25000 used.
C5_HistoryBudgetReclaims ==
    budgetCall.op = "computeHistoryBudget"
        => LET b == budgetCall.budget
               unusedSystemPrompt == b.systemPrompt - Min(budgetCall.systemPrompt, b.systemPrompt)
               unusedBootstrap == b.bootstrap - Min(budgetCall.bootstrap, b.bootstrap)
           IN  /\ b = computeBudget(budgetConfig, CallWindow)
               /\ budgetCall.historyBudget
                     = b.history + unusedSystemPrompt + unusedBootstrap + b.reserve
               /\ budgetCall.historyBudget >= b.history + b.reserve
               /\ (budgetConfig = DEFAULT_CONTEXT_BUDGET_CONFIG /\ CallWindow = 200000)
                     => /\ (budgetCall.systemPrompt = 20000 /\ budgetCall.bootstrap = 5000)
                            => budgetCall.historyBudget = 135000
                        /\ (budgetCall.systemPrompt = 40000 /\ budgetCall.bootstrap = 25000)
                            => budgetCall.historyBudget = 110000

\* an over-allocation system prompt together with unused bootstrap allocation
C5_Witness ==
    /\ budgetCall.op = "computeHistoryBudget"
    /\ budgetCall.systemPrompt > budgetCall.budget.systemPrompt
    /\ budgetCall.bootstrap < budgetCall.budget.bootstrap
    /\ budgetCall.historyBudget > budgetCall.budget.history + budgetCall.budget.reserve

\* C6 as claimed: response = max(minResponseTokens, floor(W * responseRatio)); when the
\* floor raises response, history is reduced by exactly the deficit and systemPrompt
\* and bootstrap keep their ratio values.
C6_HistoryReducedByExactDeficit ==
    budgetCall.op = "computeBudget"
        => LET b == budgetCall.budget
               raw == FloorRatio(b.total, budgetConfig.responseRatio)
           IN  /\ b.response = Max(budgetConfig.minResponseTokens, raw)
               /\ b.systemPrompt = FloorRatio(b.total, budgetConfig.systemPromptRatio)
               /\ b.bootstrap = FloorRatio(b.total, budgetConfig.bootstrapRatio)
               /\ b.response > raw
                     => b.history = FloorRatio(b.total, budgetConfig.historyRatio)
                                       - (budgetConfig.minResponseTokens - raw)

\* C6 as amended: ... when the floor raises response, history is reduced by the
\* deficit but not below 0: history = max(0, floor(W * historyRatio) - deficit).
C6_HistoryReducedByDeficitClamped ==
    budgetCall.op = "computeBudget"
        => LET b == budgetCall.budget
               raw == FloorRatio(b.total, budgetConfig.responseRatio)
               share == FloorRatio(b.total, budgetConfig.historyRatio)
               deficit == budgetConfig.minResponseTokens - raw
           IN  /\ b.response = Max(budgetConfig.minResponseTokens, raw)
               /\ b.systemPrompt = FloorRatio(b.total, budgetConfig.systemPromptRatio)
               /\ b.bootstrap = FloorRatio(b.total, budgetConfig.bootstrapRatio)
               /\ b.response > raw
                     => /\ b.history = Max(0, share - deficit)
                        /\ deficit <= share => b.history = share - deficit
               /\ b.response = raw => b.history = share

\* the floor raised response and history shrank by the whole deficit
C6_Witness ==
    /\ budgetCall.op = "computeBudget"
    /\ budgetCall.budget.response = budgetConfig.minResponseTokens
    /\ budgetCall.budget.response
          > FloorRatio(budgetCall.budget.total, budgetConfig.responseRatio)
    /\ budgetCall.budget.history > 0
    /\ budgetCall.budget.history
          < FloorRatio(budgetCall.budget.total, budgetConfig.historyRatio)

----------------------------------------------------------------------------
(* Claims about semantic retrieval (SpecRetrieve) *)

\* C3: retrieve returns totalTokens <= budgetTokens for every list of search
\* results and every budget, also when the last chunk is truncated and "..." appended.
C3_RetrievedWithinBudget ==
    retrieveCall.op = "retrieve"
        => retrieveCall.result.totalTokens <= retrieveCall.budgetTokens

----------------------------------------------------------------------------
(* Claims about rolling summarisation (SpecSummary) *)

SummarizerFailed == summaryCall.invoked /\ ~summaryCall.summarizerOk

\* C8: when rolling summarisation splits a history, recentMessages is exactly the
\* messages from the windowSize-th-from-last user message onward, and every earlier
\* message is in the older part that is summarised.
C8_RecentWindowIsLastTurns ==
    (/\ summaryCall.invoked
     /\ summaryConfig.windowSize >= 1
     /\ Cardinality(UserIndices(summaryCall.input)) >= summaryConfig.windowSize)
        => /\ summaryCall.result.recentMessages
                 = RecentTurns(summaryCall.input, summaryConfig.windowSize)
           /\ summaryCall.summarizerOk
                 => summaryCall.result.summarizedMessageCount
                       = Len(summaryCall.input)
                            - Len(RecentTurns(summaryCall.input, summaryConfig.windowSize))

\* C9: when the summariser fails, the older messages are token-trimmed from the
\* oldest first, not removed wholesale: the older messages that fit in the budget
\* left after the recent window are part of the returned context.
C9_OlderTrimmedNotDropped ==
    SummarizerFailed
        => LET split == splitByTurns(summaryConfig, summaryCall.input)
               remaining == summaryCall.budget
                               - estimateMessagesTokens(split.recentMessages)
           IN  IsSuffix(truncateMessagesToFit(split.olderMessages, remaining)
                            \o split.recentMessages,
                        summaryCall.result.recentMessages)

\* C10: when the summariser fails on a non-empty history, the returned
\* recentMessages holds at least one message.
C10_NeverDropsToNothing ==
    (SummarizerFailed /\ Len(summaryCall.input) > 0)
        => Len(summaryCall.result.recentMessages) >= 1

(* C11: when the summariser fails, buildContextWithSummary still returns a  *)
(* result: its summaryText is the existingSummary passed in (the empty text *)
(* when none was passed), didSummarize is false, summarizedMessageCount is  *)
(* 0, and recentMessages is what a successful summariser run on the same    *)
(* input returns.                                                          *)
SummarizerSucceeding == [ok |-> TRUE, text |-> [len |-> 4, breaks |-> {}]]

C11_FailureKeepsExistingSummary ==
    SummarizerFailed =>
        /\ summaryCall.op = "buildContextWithSummary"
        /\ summaryCall.result.summaryText = OrElse(summaryCall.existingSummary, EmptyText)
        /\ summaryCall.result.didSummarize = FALSE
        /\ summaryCall.result.summarizedMessageCount = 0
        /\ summaryCall.result.recentMessages =
              buildContextWithSummary(summaryConfig, summaryCall.input, summaryCall.budget,
                                      summaryCall.existingSummary,
                                      SummarizerSucceeding).recentMessages

C11_Witness ==
    /\ SummarizerFailed
    /\ IsDefined(summaryCall.existingSummary)
    /\ summaryCall.result.summaryText = ExistingSummary
    /\ Len(summaryCall.result.recentMessages) < Len(summaryCall.input)

----------------------------------------------------------------------------
(* Claims about turn-based history selection (SpecHistory) *)

TurnsCall == historyCall.op = "limitHistoryTurns"
UserCount(ms) == Cardinality(UserIndices(ms))

(* C12: limitHistoryTurns(messages, N) with N >= 1 on a history of more     *)
(* than N user messages returns exactly the entries from the N-th-from-last *)
(* user message onward: the result starts with a user message and holds     *)
(* exactly N user messages.  With N or fewer user messages, or N undefined  *)
(* or <= 0, the history is returned unchanged.                              *)
C12_LastTurnsExactly ==
    TurnsCall =>
        IF IsDefined(historyCall.limit) /\ historyCall.limit[1] >= 1
              /\ UserCount(historyCall.input) > historyCall.limit[1]
        THEN /\ historyCall.result =
                   Slice(historyCall.input,
                         NthLastUserIndex(historyCall.input, historyCall.limit[1]))
             /\ historyCall.result[1].role = "user"
             /\ UserCount(historyCall.result) = historyCall.limit[1]
        ELSE historyCall.result = historyCall.input

C12_Witness ==
    /\ TurnsCall
    /\ IsDefined(historyCall.limit) /\ historyCall.limit[1] = 2
    /\ UserCount(historyCall.input) = 3
    /\ Len(historyCall.input) = 4
    /\ Len(historyCall.result) = 3

(* C13: history selection is a fixed point on its own output: applying      *)
(* limitHistoryTurns with the same limit, or limitHistoryByTokens with the  *)
(* same budget and options, to its own result returns that result.          *)
C13_SelectionIsFixedPoint ==
    IsDefined(historyCall.rerun) => historyCall.rerun[1] = historyCall.result

C13_Witness ==
    /\ historyCall.op = "limitHistoryByTokens"
    /\ IsDefined(historyCall.rerun)
    /\ Len(historyCall.result) > 1
    /\ Len(historyCall.result) < Len(historyCall.input)
    /\ estimateMessagesTokens(historyCall.result) = historyCall.budgetTokens

----------------------------------------------------------------------------
(* Further claims about rolling summarisation (SpecSummary) *)

(* C14: the result of buildContextWithSummary fits the budget it was given: *)
(* totalTokens (recent-message tokens + summary tokens) <= budget, for      *)
(* every history, budget and configuration.                                *)
C14_TotalWithinBudget ==
    summaryCall.op = "buildContextWithSummary"
        => summaryCall.result.totalTokens <= summaryCall.budget

(* C15: shouldSummarize(messages, budget) is true exactly when rolling      *)
(* summarisation is enabled and the token estimate of the history is        *)
(* strictly greater than min(triggerThreshold, 0.8 * budget), or than       *)
(* triggerThreshold alone when no budget is given; when disabled it is      *)
(* false.  (Both sides of the comparison are taken times ten.)              *)
C15_ShouldSummarizeThreshold ==
    summaryCall.op = "shouldSummarize" =>
        summaryCall.should =
            (/\ summaryConfig.enabled
             /\ estimateMessagesTokens(summaryCall.input) * 10 >
                    IF summaryCall.budgetGiven
                    THEN Min(summaryConfig.triggerThreshold * 10, summaryCall.budget * 8)
                    ELSE summaryConfig.triggerThreshold * 10)

----------------------------------------------------------------------------
(* Further claims about semantic retrieval (SpecRetrieve) *)

RetrieveDone == retrieveCall.op = "retrieve"
Contexts == retrieveCall.result.contexts

(* C16: every context returned by retrieve has score >= minRelevanceScore,  *)
(* at most maxRetrievedChunks contexts are returned, and the contexts stand *)
(* in the relative order of the provider's results (a result's path is its  *)
(* position in the provider's answer).                                     *)
C16_RelevantCappedInOrder ==
    RetrieveDone =>
        /\ \A i \in 1 .. Len(Contexts) :
              /\ Contexts[i].score >= retrieverConfig.minRelevanceScore
              /\ Contexts[i].path \in 1 .. Len(searchResults)
              /\ Contexts[i].score = searchResults[Contexts[i].path].score
        /\ Len(Contexts) <= retrieverConfig.maxRetrievedChunks
        /\ \A i, j \in 1 .. Len(Contexts) : i < j => Contexts[i].path < Contexts[j].path

C16_Witness ==
    /\ RetrieveDone
    /\ Len(searchResults) = 3
    /\ searchResults[2].score < retrieverConfig.minRelevanceScore
    /\ Len(Contexts) = 2
    /\ Contexts[1].path = 1 /\ Contexts[2].path = 3
    /\ retrieverConfig.maxRetrievedChunks = 5

\* the context was cut: its snippet is not the snippet of the result it came from
Truncated(i) == Contexts[i].snippet # searchResults[Contexts[i].path].snippet

\* the tokens of the contexts before the i-th
RECURSIVE UsedBefore(_)
UsedBefore(i) == IF i <= 1 THEN 0 ELSE UsedBefore(i - 1) + Contexts[i - 1].tokens

(* C17: a relevant chunk that does not fit whole in the remaining budget is *)
(* included in truncated form only if at least 100 tokens of the budget     *)
(* remain, and is dropped otherwise; a truncated chunk is the final context *)
(* of the result, and all contexts before it are untruncated.               *)
C17_TruncatedOnlyLastWithRoom ==
    RetrieveDone =>
        \A i \in 1 .. Len(Contexts) :
            Truncated(i) =>
                /\ i = Len(Contexts)
                /\ \A k \in 1 .. i - 1 : ~Truncated(k)
                /\ UsedBefore(i) + estimateTextTokens(searchResults[Contexts[i].path].snippet)
                      > retrieveCall.budgetTokens
                /\ retrieveCall.budgetTokens - UsedBefore(i) >= 100

C17_Witness ==
    /\ RetrieveDone
    /\ Len(Contexts) = 2
    /\ ~Truncated(1) /\ Truncated(2)
    /\ retrieveCall.budgetTokens - UsedBefore(2) = 125

\* the positions in the provider's answer of the results that pass the filter
RelevantPaths ==
    {p \in 1 .. Len(searchResults) :
        searchResults[p].score >= retrieverConfig.minRelevanceScore}
ContextPaths == {Contexts[i].path : i \in 1 .. Len(Contexts)}

(* C18: retrieve packs as many relevant chunks as fit: when fewer than      *)
(* maxRetrievedChunks contexts are returned, every result that passed the   *)
(* relevance filter and is absent from the contexts would not have fit      *)
(* whole in the budget the returned contexts leave over.                    *)
C18_AbsentChunksDoNotFit ==
    (/\ RetrieveDone
     /\ retrieveCall.result.didRetrieve
     /\ Len(Contexts) < retrieverConfig.maxRetrievedChunks)
        => \A p \in RelevantPaths \ ContextPaths :
              retrieveCall.result.totalTokens + estimateTextTokens(searchResults[p].snippet)
                  > retrieveCall.budgetTokens

(* C19: retrieve returns {contexts: [], totalTokens: 0, didRetrieve: false} *)
(* when retrieval is disabled, when the prompt is empty or whitespace, when *)
(* budgetTokens <= 0, and when the search provider fails (the caller gets   *)
(* a result, not the failure); when disabled the search provider is not     *)
(* called.                                                                 *)
C19_EmptyResultWhenNothingToRetrieve ==
    RetrieveDone =>
        /\ (\/ ~retrieverConfig.enabled
            \/ retrieveCall.promptBlank
            \/ retrieveCall.budgetTokens <= 0
            \/ ~retrieveCall.searchOk)
              => /\ retrieveCall.result.contexts = <<>>
                 /\ retrieveCall.result.totalTokens = 0
                 /\ retrieveCall.result.didRetrieve = FALSE
        /\ ~retrieverConfig.enabled => ~retrieveCall.searched

C19_Witness ==
    /\ RetrieveDone
    /\ retrieveCall.searched /\ ~retrieveCall.searchOk
    /\ Len(searchResults) > 0
    /\ retrieveCall.budgetTokens = 250
    /\ retrieveCall.result.didRetrieve = FALSE

----------------------------------------------------------------------------
(* Further claims about token-based history selection (SpecHistory) *)

(* C20: token-trimming drops oldest first: the result of                    *)
(* limitHistoryByTokens is a contiguous suffix of its input, the same       *)
(* messages in the same order; no message is kept while a newer one is      *)
(* dropped.                                                                *)
C20_ResultIsSuffix ==
    historyCall.op = "limitHistoryByTokens"
        => IsSuffix(historyCall.result, historyCall.input)

C20_Witness ==
    /\ historyCall.op = "limitHistoryByTokens"
    /\ Len(historyCall.input) = 4
    /\ Len(historyCall.result) = 2
    /\ IsDefined(historyCall.preserve) /\ historyCall.preserve[1] = 1
    /\ historyCall.result[2].role = "user"

----------------------------------------------------------------------------
(* Claims about the turn limit of a session (SpecSession) *)

SessionCall ==
    historyCall.op = "getDmHistoryLimitFromSessionKey"
        /\ IsDefined(historyCall.sessionKey) /\ IsDefined(historyCall.config)

\* channels.<provider> of the configuration of the call, when there is one
CallProviderConfig ==
    LET cfg == historyCall.config[1]
    IN  IF IsDefined(cfg.channels) /\ historyCall.provider \in DOMAIN cfg.channels[1]
        THEN Some(cfg.channels[1][historyCall.provider])
        ELSE None

\* channels.<provider>.dms.<userId>.historyLimit, when set
CallOverride ==
    LET pc == CallProviderConfig[1]
    IN  IF historyCall.userId \in DOMAIN pc.dms
        THEN pc.dms[historyCall.userId].historyLimit
        ELSE None

----------------------------------------------------------------------------
(* Claims about history selection within a window (SpecWindow) *)

ZeroWindowSelection ==
    /\ budgetCall.op = "computeHistoryBudget"
    /\ historyCall.op = "limitHistoryByTokens"
    /\ budgetCall.contextWindow = Some(0)

(* C22: with context window 0 the budget allocator returns total = 1, and   *)
(* history selection with the resulting history budget returns the empty    *)
(* history for every input history.                                        *)
C22_ZeroWindowSelectsNothing ==
    ZeroWindowSelection =>
        /\ budgetCall.budget.total = 1
        /\ historyCall.budgetTokens = budgetCall.historyBudget
        /\ historyCall.result = <<>>

----------------------------------------------------------------------------
(* Claims about the factories (SpecFactory) *)

\* knob by knob: the configured value when the section sets it, else the default
KnobsFollow(config, sectionOpt, defaults) ==
    /\ DOMAIN config = DOMAIN defaults
    /\ \A k \in DOMAIN defaults :
          config[k] = IF IsDefined(sectionOpt) /\ IsDefined(sectionOpt[1][k])
                      THEN sectionOpt[1][k][1]
                      ELSE defaults[k]

(* C23: createBudgetManagerFromConfig and createRollingSummarizerFromConfig *)
(* give every knob the section omits its default value and every knob that  *)
(* is set its configured value; with an undefined or null contextManagement *)
(* the configuration equals the defaults.                                  *)
C23_FactoriesFillDefaults ==
    /\ budgetCall.op = "createBudgetManagerFromConfig" =>
          /\ KnobsFollow(budgetConfig, budgetCall.contextManagement.sections.budget,
                         DEFAULT_CONTEXT_BUDGET_CONFIG)
          /\ budgetCall.contextManagement.kind # "object"
                => budgetConfig = DEFAULT_CONTEXT_BUDGET_CONFIG
    /\ summaryCall.op = "createRollingSummarizerFromConfig" =>
          /\ KnobsFollow(summaryConfig,
                         summaryCall.contextManagement.sections.rollingSummary,
                         DEFAULT_ROLLING_SUMMARY_CONFIG)
          /\ summaryCall.contextManagement.kind # "object"
                => summaryConfig = DEFAULT_ROLLING_SUMMARY_CONFIG

C23_Witness ==
    /\ budgetCall.op = "createBudgetManagerFromConfig"
    /\ summaryCall.op = "createRollingSummarizerFromConfig"
    /\ budgetConfig.historyRatio = 55 /\ budgetConfig.minResponseTokens = 0
    /\ budgetConfig.systemPromptRatio = DEFAULT_CONTEXT_BUDGET_CONFIG.systemPromptRatio
    /\ budgetCall.contextManagement.sections.budget[1].systemPromptRatio = None
    /\ summaryConfig.enabled /\ summaryConfig.windowSize = 10
    /\ summaryConfig.triggerThreshold = DEFAULT_ROLLING_SUMMARY_CONFIG.triggerThreshold
    /\ summaryCall.contextManagement.sections.rollingSummary[1].triggerThreshold = None

----------------------------------------------------------------------------
(* Claims about the lane scheduler (SpecLane) *)

(* C25: under every interleaving of acquire, release, waiter cancellation   *)
(* and holder error, the number of holders of the lane never exceeds its    *)
(* configured concurrency (default 1), and a cancelled waiter is never      *)
(* woken into a holder.                                                    *)
C25_HoldersWithinConcurrency ==
    /\ Cardinality(lane.holders) <= lane.concurrency
    /\ lane.cancelled \cap (lane.holders \cup lane.completed \cup lane.failed) = {}

C25_Witness ==
    /\ lane.concurrency = DefaultConcurrency
    /\ Cardinality(lane.cancelled) = 1
    /\ Cardinality(lane.failed) = 1
    /\ Cardinality(lane.holders) = 1
    /\ lane.waiters = <<>>

----------------------------------------------------------------------------
(* Claims about the approval broker (SpecApproval) *)

Executions == approvals.executions

(* C26: after any sequence of approval requests, decisions, expiries and    *)
(* executions, a granted approval is consumed by at most one execution: no  *)
(* two distinct executions consume the same approvalId, and an execution    *)
(* whose argument digest differs from the approved digest is rejected.      *)
C26_ApprovalConsumedOnce ==
    /\ \A i, j \in 1 .. Len(Executions) :
          (/\ i # j
           /\ Executions[i].outcome = "executed"
           /\ Executions[j].outcome = "executed")
              => Executions[i].approvalId # Executions[j].approvalId
    /\ \A i \in 1 .. Len(Executions) :
          /\ Executions[i].digest # approvals.table[Executions[i].approvalId].digest
                => Executions[i].outcome = "rejected"
          /\ Executions[i].outcome = "executed" => Executions[i].granted

C26_Witness ==
    /\ Len(Executions) = 3
    /\ Executions[1].outcome = "executed"
    /\ Executions[2].approvalId = Executions[1].approvalId
    /\ Executions[2].digest = Executions[1].digest
    /\ Executions[2].outcome = "rejected"
    /\ Executions[3].approvalId # Executions[1].approvalId
    /\ Executions[3].granted /\ Executions[3].outcome = "rejected"

----------------------------------------------------------------------------
(* Claims about the size of the selected history (SpecHistory) *)

TokensCall == historyCall.op = "limitHistoryByTokens"

----------------------------------------------------------------------------
(* Further claims about the factories (SpecFactory) *)

RetrieverCreated == retrieveCall.op = "createSemanticHistoryRetrieverFromConfig"

(* C28: createSemanticHistoryRetrieverFromConfig with a semanticHistory      *)
(* section that omits a knob yields a retriever whose omitted knob has its   *)
(* default value (enabled false, maxRetrievedChunks 5, minRelevanceScore     *)
(* 0.6, here 60 hundredths), and whose other knobs have the configured       *)
(* values, so that retrieve still caps the number of chunks and filters by   *)
(* score.                                                                   *)
C28_RetrieverOmittedKnobsDefault ==
    RetrieverCreated =>
        LET section == retrieveCall.contextManagement.sections.semanticHistory
        IN  \A k \in DOMAIN DEFAULT_SEMANTIC_HISTORY_CONFIG :
                retrieveCall.config[k] =
                    IF IsDefined(section) /\ IsDefined(section[1][k])
                    THEN section[1][k]
                    ELSE Some(DEFAULT_SEMANTIC_HISTORY_CONFIG[k])

----------------------------------------------------------------------------
(* Claims about the rolling-summary split (SpecSummary) *)

SummaryBuilt == summaryCall.op = "buildContextWithSummary"

(* C29: the split of buildContextWithSummary is a partition of the history: *)
(* the older messages followed by the recent messages are the input, in     *)
(* order, nothing lost or duplicated; and when didSummarize is true,        *)
(* summarizedMessageCount + recentMessages.length is the length of the      *)
(* input and summarizedMessageCount > 0.                                    *)
C29_SplitIsPartition ==
    SummaryBuilt =>
        LET split == splitByTurns(summaryConfig, summaryCall.input)
            result == summaryCall.result
        IN  /\ split.olderMessages \o split.recentMessages = summaryCall.input
            /\ result.didSummarize =>
                  /\ result.summarizedMessageCount + Len(result.recentMessages)
                        = Len(summaryCall.input)
                  /\ result.summarizedMessageCount > 0
                  /\ SliceTo(summaryCall.input, result.summarizedMessageCount)
                        \o result.recentMessages = summaryCall.input

C29_Witness ==
    /\ SummaryBuilt
    /\ summaryCall.result.didSummarize
    /\ summaryCall.result.summarizedMessageCount >= 2
    /\ Len(summaryCall.result.recentMessages) >= 2

----------------------------------------------------------------------------
(* Claims about the budget of token-based history selection (SpecHistory) *)

(* C30: limitHistoryByTokens is monotone in the budget: for the same        *)
(* history and preserveRecentTurns, the output for a budget is a suffix of  *)
(* the output for every larger budget, so raising the budget never removes  *)
(* a message that was kept.                                                 *)
C30_MonotoneInBudget ==
    TokensCall =>
        \A larger \in HistoryBudgets :
            larger >= historyCall.budgetTokens =>
                IsSuffix(historyCall.result,
                         limitHistoryByTokens(historyCall.input, larger,
                                              historyCall.preserve))

C30_Witness ==
    /\ TokensCall
    /\ Len(historyCall.result) >= 1
    /\ \E larger \in HistoryBudgets :
          /\ larger > historyCall.budgetTokens
          /\ LET more == limitHistoryByTokens(historyCall.input, larger,
                                              historyCall.preserve)
             IN  /\ Len(more) > Len(historyCall.result)
                 /\ Len(more) < Len(historyCall.input)

====
